---- MODULE Spec2Model ----
(***************************************************************************)
(* Model of the orchid catalogue query engine in                           *)
(* src/orchid_app_complete.py: class OrchidSearchDB (synonym expansion,    *)
(* text normalisation, the five search paths over the SQLite store) and    *)
(* the session script around it (init_database, reset).                    *)
(*                                                                         *)
(* Text is modelled by TLA+ strings, characters being one-character        *)
(* strings obtained with SubSeq.  SQLite values and Python values are      *)
(* tagged records so that NULL/None, text and numbers stay distinct.       *)
(***************************************************************************)
EXTENDS Integers, Sequences, FiniteSets, TLC

VARIABLES
    orchids,      \* table orchids as the open connection sees it: its rows in rowid order
    committed,    \* table orchids in file orchids.db: the rows committed
    orchids_fts,  \* the FTS5 index: its entries in insertion order
    health,       \* "ok", "no_fts" (the index table is missing) or "down"
    cached,       \* st.cache_resource holds init_database's result
    data_loaded,  \* st.session_state.data_loaded
    loads,        \* how many times init_database has run
    load_info,    \* init_database's third result: a row count or an error
    hashseed,     \* the string-hash seed of the Python process
    call,         \* the operation the running script invoked, if any
    outcome,      \* what that operation returned or raised
    cursor,       \* self.cursor: <<the session that executed last, the rows pending>>
    threads       \* per session sharing the object: <<phase, query, result>>

vars ==
    <<orchids, committed, orchids_fts, health, cached, data_loaded, loads, load_info,
      hashseed, call, outcome, cursor, threads>>

(***************************************************************************)
(* Characters and strings                                                  *)
(***************************************************************************)

LowerMap ==
    ("A" :> "a") @@ ("B" :> "b") @@ ("C" :> "c") @@ ("D" :> "d") @@
    ("E" :> "e") @@ ("F" :> "f") @@ ("G" :> "g") @@ ("H" :> "h") @@
    ("I" :> "i") @@ ("J" :> "j") @@ ("K" :> "k") @@ ("L" :> "l") @@
    ("M" :> "m") @@ ("N" :> "n") @@ ("O" :> "o") @@ ("P" :> "p") @@
    ("Q" :> "q") @@ ("R" :> "r") @@ ("S" :> "s") @@ ("T" :> "t") @@
    ("U" :> "u") @@ ("V" :> "v") @@ ("W" :> "w") @@ ("X" :> "x") @@
    ("Y" :> "y") @@ ("Z" :> "z")

LowerLetters ==
    {"a", "b", "c", "d", "e", "f", "g", "h", "i", "j", "k", "l", "m",
     "n", "o", "p", "q", "r", "s", "t", "u", "v", "w", "x", "y", "z"}

Digits == {"0", "1", "2", "3", "4", "5", "6", "7", "8", "9"}

Char(s, i) == SubSeq(s, i, i)

\* str.lower() on one character
LowerChar(c) == IF c \in DOMAIN LowerMap THEN LowerMap[c] ELSE c

RECURSIVE LowerStr(_)
\* str.lower()
LowerStr(s) ==
    IF s = "" THEN ""
    ELSE LowerChar(Char(s, 1)) \o LowerStr(SubSeq(s, 2, Len(s)))

\* str.isalnum() on one character
IsAlnumChar(c) == c \in LowerLetters \/ c \in DOMAIN LowerMap \/ c \in Digits

\* str.isalnum(): non-empty and every character alphanumeric
IsAlnum(s) == s # "" /\ \A i \in 1..Len(s) : IsAlnumChar(Char(s, i))

\* str.isspace() on one character
IsSpace(c) == c = " "

RECURSIVE LStrip(_)
LStrip(s) ==
    IF s # "" /\ IsSpace(Char(s, 1)) THEN LStrip(SubSeq(s, 2, Len(s))) ELSE s

RECURSIVE RStrip(_)
RStrip(s) ==
    IF s # "" /\ IsSpace(Char(s, Len(s)))
    THEN RStrip(SubSeq(s, 1, Len(s) - 1)) ELSE s

\* str.strip()
Strip(s) == LStrip(RStrip(s))

\* Python's  a in b  on two strings: case-sensitive substring
InStr(a, b) ==
    \E i \in 1..(Len(b) - Len(a) + 1) : SubSeq(b, i, i + Len(a) - 1) = a

RECURSIVE SplitWords(_, _, _)
\* str.split(): the maximal runs of non-space characters of s from index i,
\* cur being the run under construction
SplitWords(s, i, cur) ==
    IF i > Len(s) THEN (IF cur = "" THEN <<>> ELSE <<cur>>)
    ELSE IF IsSpace(Char(s, i))
         THEN (IF cur = "" THEN <<>> ELSE <<cur>>) \o SplitWords(s, i + 1, "")
         ELSE SplitWords(s, i + 1, cur \o Char(s, i))

(***************************************************************************)
(* SQLite values                                                           *)
(***************************************************************************)

SqlNull == [t |-> "null"]
T(s) == [t |-> "text", v |-> s]
R(n) == [t |-> "real", n |-> n]
I(n) == [t |-> "int", n |-> n]

RECURSIVE LikeAt(_, _, _, _)
\* SQLite's LIKE on lower-cased pattern p from index i and text s from index
\* j: % matches any run of characters, _ any one character
LikeAt(p, i, s, j) ==
    IF i > Len(p) THEN j > Len(s)
    ELSE IF Char(p, i) = "%"
         THEN \E k \in j..(Len(s) + 1) : LikeAt(p, i + 1, s, k)
         ELSE /\ j <= Len(s)
              /\ (Char(p, i) = "_" \/ Char(p, i) = Char(s, j))
              /\ LikeAt(p, i + 1, s, j + 1)

\* value LIKE pattern: NULL never matches, a number is compared as its text
\* (no numeric column is matched with LIKE here), ASCII case is ignored
Like(val, pat) ==
    /\ val.t = "text"
    /\ LikeAt(LowerStr(pat), 1, LowerStr(val.v), 1)

(***************************************************************************)
(* Python values handed in by the caller                                   *)
(***************************************************************************)

PyNone == [t |-> "none"]
Str(s) == [t |-> "str", v |-> s]
Num(n) == [t |-> "num", n |-> n]

(***************************************************************************)
(* Synonym tables and expand_query                                         *)
(***************************************************************************)

\* self.color_synonyms, in the dict's insertion order
color_synonyms ==
    << [name |-> "pink",   terms |-> <<"pink", "rose", "magenta", "fuchsia">>],
       [name |-> "white",  terms |-> <<"white", "cream", "ivory", "pale">>],
       [name |-> "yellow", terms |-> <<"yellow", "gold", "golden", "lemon">>],
       [name |-> "purple", terms |-> <<"purple", "violet", "lavender", "mauve">>],
       [name |-> "red",    terms |-> <<"red", "crimson", "scarlet", "burgundy">>],
       [name |-> "orange", terms |-> <<"orange", "coral", "peach", "apricot">>],
       [name |-> "blue",   terms |-> <<"blue", "azure", "indigo">>],
       [name |-> "green",  terms |-> <<"green", "lime", "chartreuse">>] >>

\* self.region_synonyms, in the dict's insertion order
region_synonyms ==
    << [name |-> "southeast asia",
        terms |-> <<"southeast asia", "se asia", "philippines", "indonesia",
                    "thailand", "vietnam", "malaysia">>],
       [name |-> "south america",
        terms |-> <<"south america", "brazil", "colombia", "ecuador", "peru">>],
       [name |-> "central america",
        terms |-> <<"central america", "mexico", "costa rica", "panama">>],
       [name |-> "asia",
        terms |-> <<"asia", "china", "japan", "india", "taiwan">>] >>

Range(seq) == {seq[i] : i \in DOMAIN seq}

\* a colour loop that compares the token with the group's name only
ColorHitByName(q) ==
    LET hits == {i \in DOMAIN color_synonyms : q = color_synonyms[i].name}
    IN  IF hits = {} THEN <<>>
        ELSE color_synonyms[CHOOSE i \in hits : \A j \in hits : i <= j].terms

\* the colour loop: the terms of the first group that lists q, else none
ColorHit(q) ==
    LET hits == {i \in DOMAIN color_synonyms : q \in Range(color_synonyms[i].terms)}
    IN  IF hits = {} THEN <<>>
        ELSE color_synonyms[CHOOSE i \in hits : \A j \in hits : i <= j].terms

\* the test of the region loop:  query_lower in region or query_lower in synonyms
\* (the first is a substring test on the group's name, the second list membership)
RegionTest(q, g) == InStr(q, g.name) \/ q \in Range(g.terms)

\* the region loop: the terms of the first group that passes the test, else none
RegionHit(q) ==
    LET hits == {i \in DOMAIN region_synonyms : RegionTest(q, region_synonyms[i])}
    IN  IF hits = {} THEN <<>>
        ELSE region_synonyms[CHOOSE i \in hits : \A j \in hits : i <= j].terms

\* the list  expanded  that expand_query builds before it removes duplicates
expanded(query) ==
    LET query_lower == Strip(LowerStr(query))
    IN  <<query_lower>> \o ColorHit(query_lower) \o RegionHit(query_lower)

\* expand_query: list(set(expanded)), as the set of its terms
expand_query(query) == Range(expanded(query))

RECURSIVE Dedupe(_)
\* the distinct elements of a list, each at its first occurrence
Dedupe(seq) ==
    IF seq = <<>> THEN <<>>
    ELSE LET front == Dedupe(SubSeq(seq, 1, Len(seq) - 1))
             x == seq[Len(seq)]
         IN  IF x \in Range(front) THEN front ELSE Append(front, x)

\* seq rotated to the left by k places
Rotate(seq, k) ==
    IF seq = <<>> THEN <<>>
    ELSE [i \in 1..Len(seq) |-> seq[((i - 1 + k) % Len(seq)) + 1]]

\* list(set(expanded)) as a list: the distinct terms in the iteration order
\* of a set of strings, which the hash seed of the process fixes.  The seeds
\* of the model stand for the orders that are rotations of the order of
\* insertion, so that a term other than the token can head the list
expanded_terms(query, seed) == Rotate(Dedupe(expanded(query)), seed)

(***************************************************************************)
(* preprocess_text: NLTK's word_tokenize, stop-word list and WordNet        *)
(* lemmatizer on the characters the model uses                             *)
(***************************************************************************)

RECURSIVE PadPunct(_)
\* the Treebank tokenizer sets double quotes and % apart as tokens of their
\* own; a hyphen or underscore inside a word stays in the word
PadPunct(s) ==
    IF s = "" THEN ""
    ELSE LET c == Char(s, 1)
         IN  (IF c \in {"\"", "%"} THEN " " \o c \o " " ELSE c)
             \o PadPunct(SubSeq(s, 2, Len(s)))

word_tokenize(s) == SplitWords(PadPunct(s), 1, "")

\* stopwords.words('english'), the entries the modelled queries can produce
stop_words == {"a", "an", "and", "the", "from", "of", "or", "in", "with", "s", "t"}

\* WordNet nouns the modelled queries can reach
WordNetNouns == {"orchid", "vanda", "rose", "flower", "asia"}

\* WordNetLemmatizer.lemmatize(token) with the default part of speech (noun):
\* a detached plural -s gives the form WordNet lists, else the token itself
lemmatize(w) ==
    IF Len(w) > 1 /\ Char(w, Len(w)) = "s" /\ SubSeq(w, 1, Len(w) - 1) \in WordNetNouns
    THEN SubSeq(w, 1, Len(w) - 1)
    ELSE w

\* a comprehension that keeps one copy of each root form
FilterLemmatizeDistinct(tokens) ==
    LET kept == SelectSeq(tokens, LAMBDA tk : IsAlnum(tk) /\ tk \notin stop_words)
    IN  Dedupe([i \in DOMAIN kept |-> lemmatize(kept[i])])

RECURSIVE FilterLemmatize(_)
\* the list comprehension: the tokens that pass the test, lemmatized, in
\* the order of the token list
FilterLemmatize(tokens) ==
    IF tokens = <<>> THEN <<>>
    ELSE LET tk == Head(tokens)
         IN  (IF IsAlnum(tk) /\ tk \notin stop_words THEN <<lemmatize(tk)>> ELSE <<>>)
             \o FilterLemmatize(Tail(tokens))

preprocess_text(text) ==
    IF text = "" THEN <<>>
    ELSE FilterLemmatize(word_tokenize(LowerStr(text)))

\* preprocess_text on a Python value:  if not text  is true of None as of ""
Preprocess(text) == IF text.t = "none" THEN <<>> ELSE preprocess_text(text.v)

(***************************************************************************)
(* The store: table orchids and its full-text index orchids_fts            *)
(***************************************************************************)

\* the fifteen columns intelligent_search scans, in the order of its SQL
SmartColumns ==
    <<"Scientific_Name", "Genus", "Flower_Color", "Common_Names",
      "Native_Regions", "Native_Habitat", "Special_Features", "Fragrance",
      "Fragrance_Description", "Petal_Shape", "Lip_Color",
      "Temperature_Preference", "Blooming_Season", "Horticultural_Notes",
      "Growth_Habit">>

\* the six columns of fallback_search
FallbackColumns ==
    <<"Scientific_Name", "Genus", "Flower_Color", "Common_Names",
      "Native_Regions", "Special_Features">>

\* the seven columns of combined_search's text component
CombinedColumns ==
    <<"Scientific_Name", "Genus", "Flower_Color", "Common_Names",
      "Native_Regions", "Special_Features", "Fragrance_Description">>

\* the thirteen columns of the FTS5 table
FtsColumns ==
    <<"Scientific_Name", "Genus", "Flower_Color", "Petal_Shape", "Lip_Color",
      "Fragrance_Description", "Blooming_Season", "Temperature_Preference",
      "Native_Habitat", "Native_Regions", "Special_Features", "Common_Names",
      "Horticultural_Notes">>

\* columns of REAL affinity among those modelled
RealColumns == {"Temperature_Min_C", "Temperature_Max_C"}

\* the columns of table orchids the searches read; the remaining columns of
\* CREATE TABLE are stored alike and read by no search
TextColumns == Range(SmartColumns) \cup {"Horticultural_Difficulty", "Order_Name"}

Columns == {"id"} \cup TextColumns \cup RealColumns

RECURSIVE DigitsValue(_, _)
\* the number a run of decimal digits denotes, acc being the value so far
DigitsValue(s, acc) ==
    IF s = "" THEN acc
    ELSE LET d == Char(s, 1)
             n == CHOOSE k \in 0..9 : Char("0123456789", k + 1) = d
         IN  DigitsValue(SubSeq(s, 2, Len(s)), 10 * acc + n)

IsNumeral(s) == s # "" /\ \A i \in 1..Len(s) : Char(s, i) \in Digits

\* a bound Python value as stored in a column: None is NULL, a column of REAL
\* affinity converts text that is a well-formed number, any other text stays
StoreValue(col, pv) ==
    IF pv.t = "none" THEN SqlNull
    ELSE IF col \in RealColumns /\ IsNumeral(pv.v)
         THEN R(DigitsValue(pv.v, 0))
         ELSE T(pv.v)

\* SQLite's  column >= ?  with a number bound: NULL compares to nothing, text
\* sorts after every number
GeNum(val, n) ==
    CASE val.t = "null" -> FALSE
      [] val.t = "real" -> val.n >= n
      [] val.t = "text" -> TRUE

\* SQLite's  column <= ?  with a number bound
LeNum(val, n) ==
    CASE val.t = "null" -> FALSE
      [] val.t = "real" -> val.n <= n
      [] val.t = "text" -> FALSE

\* SQLite's order of storage classes: NULL, then numbers, then text
ClassRank(val) ==
    CASE val.t = "null" -> 0
      [] val.t = "real" -> 1
      [] val.t = "text" -> 2

\* val1 sorts before val2 in an index; the text a REAL column of the modelled
\* rows can hold is the empty string only, which sorts before no text
ValueBefore(val1, val2) ==
    \/ ClassRank(val1) < ClassRank(val2)
    \/ val1.t = "real" /\ val2.t = "real" /\ val1.n < val2.n

\* the order of the rows in index idx_temp ON orchids(Temperature_Min_C,
\* Temperature_Max_C): by the two columns, then by rowid
IdxTempBefore(row1, row2) ==
    LET min1 == row1["Temperature_Min_C"]
        min2 == row2["Temperature_Min_C"]
        max1 == row1["Temperature_Max_C"]
        max2 == row2["Temperature_Max_C"]
    IN  \/ ValueBefore(min1, min2)
        \/ /\ ~ValueBefore(min2, min1)
           /\ \/ ValueBefore(max1, max2)
              \/ ~ValueBefore(max2, max1) /\ row1["id"].n < row2["id"].n

RECURSIVE Tokens61(_, _, _)
\* FTS5's unicode61 tokenizer: the maximal runs of alphanumeric characters,
\* case folded
Tokens61(s, i, cur) ==
    IF i > Len(s) THEN (IF cur = "" THEN <<>> ELSE <<cur>>)
    ELSE IF IsAlnumChar(Char(s, i))
         THEN Tokens61(s, i + 1, cur \o LowerChar(Char(s, i)))
         ELSE (IF cur = "" THEN <<>> ELSE <<cur>>) \o Tokens61(s, i + 1, "")

\* the tokens FTS5 indexes for one column value
IndexTokens(val) == IF val.t = "text" THEN Tokens61(val.v, 1, "") ELSE <<>>

\* the index entry INSERT INTO orchids_fts ... SELECT writes for one row
FtsEntry(row) ==
    [rowid |-> row["id"].n,
     doc   |-> [c \in Range(FtsColumns) |-> IndexTokens(row[c])]]

(***************************************************************************)
(* The FTS5 MATCH primitive: barewords, quoted strings, AND / OR / NOT      *)
(***************************************************************************)

RECURSIVE FtsLex(_, _, _, _)
\* the lexemes of query q from index i; cur is the bareword under
\* construction, acc the lexemes so far.  A double quote opens a string that
\* must be closed; a character that is neither a bareword character, a space
\* nor a quote is a syntax error
FtsLex(q, i, cur, acc) ==
    LET flushed == IF cur = "" THEN acc ELSE Append(acc, [k |-> "bare", s |-> cur])
    IN  IF i > Len(q) THEN [ok |-> TRUE, items |-> flushed]
        ELSE LET c == Char(q, i)
             IN  IF c = "\""
                 THEN LET closes == {j \in (i + 1)..Len(q) : Char(q, j) = "\""}
                      IN  IF closes = {} THEN [ok |-> FALSE, items |-> <<>>]
                          ELSE LET j == CHOOSE x \in closes : \A y \in closes : x <= y
                               IN  FtsLex(q, j + 1, "",
                                          Append(flushed,
                                                 [k |-> "str", s |-> SubSeq(q, i + 1, j - 1)]))
                 ELSE IF IsSpace(c) THEN FtsLex(q, i + 1, "", flushed)
                 ELSE IF IsAlnumChar(c) \/ c = "_" THEN FtsLex(q, i + 1, cur \o c, acc)
                 ELSE [ok |-> FALSE, items |-> <<>>]

IsOp(item, op) == item.k = "bare" /\ item.s = op

RECURSIVE SplitAt(_, _, _)
\* the runs of lexemes between occurrences of operator op
SplitAt(items, op, cur) ==
    IF items = <<>> THEN <<cur>>
    ELSE IF IsOp(Head(items), op)
         THEN <<cur>> \o SplitAt(Tail(items), op, <<>>)
         ELSE SplitAt(Tail(items), op, Append(cur, Head(items)))

OrParts(items) == SplitAt(items, "OR", <<>>)
AndParts(items) == SplitAt(items, "AND", <<>>)
NotParts(items) == SplitAt(items, "NOT", <<>>)

\* every operator has an operand on both sides
FtsWellFormed(items) ==
    \A o \in Range(OrParts(items)) :
        \A a \in Range(AndParts(o)) :
            \A n \in Range(NotParts(a)) : n # <<>>

\* a phrase matches a document when its tokens occur side by side in a column
PhraseIn(item, doc) ==
    LET tk == Tokens61(item.s, 1, "")
    IN  /\ tk # <<>>
        /\ \E c \in DOMAIN doc :
              \E i \in 1..(Len(doc[c]) - Len(tk) + 1) :
                  SubSeq(doc[c], i, i + Len(tk) - 1) = tk

\* phrases side by side are ANDed
MatchGroup(group, doc) == \A i \in DOMAIN group : PhraseIn(group[i], doc)

MatchNot(items, doc) ==
    LET parts == NotParts(items)
    IN  /\ MatchGroup(parts[1], doc)
        /\ \A i \in 2..Len(parts) : ~MatchGroup(parts[i], doc)

MatchAnd(items, doc) == \A a \in Range(AndParts(items)) : MatchNot(a, doc)

MatchOr(items, doc) == \E o \in Range(OrParts(items)) : MatchAnd(o, doc)

\* SELECT rowid FROM orchids_fts WHERE orchids_fts MATCH q: the rowids, or a
\* failure of the engine on q
FtsMatch(q) ==
    LET lx == FtsLex(q, 1, "", <<>>)
    IN  IF ~lx.ok \/ lx.items = <<>> \/ ~FtsWellFormed(lx.items)
        THEN [ok |-> FALSE, rowids |-> {}]
        ELSE [ok |-> TRUE,
              rowids |-> {e.rowid : e \in {x \in Range(orchids_fts) :
                                                MatchOr(lx.items, x.doc)}}]

(***************************************************************************)
(* The search paths                                                        *)
(***************************************************************************)

\* what a call gave: the rows returned (or the terms, for expand_query, or
\* the tokens, for preprocess_text), or an exception; fellback records that fulltext_search took its except branch
Returned(rows) == [terms |-> {}, rows |-> rows, kind |-> "returned", fellback |-> FALSE]
Raised == [terms |-> {}, rows |-> <<>>, kind |-> "raised", fellback |-> FALSE]

Min(a, b) == IF a <= b THEN a ELSE b

\* a limit that lets one row too many through
LimitOffByOne(rows, limit) ==
    IF limit < 0 THEN rows ELSE SubSeq(rows, 1, Min(limit + 1, Len(rows)))

\* SQL's  LIMIT ?  : a negative limit is no limit
Limit(rows, limit) ==
    IF limit < 0 THEN rows ELSE SubSeq(rows, 1, Min(limit, Len(rows)))

\* "%" + text + "%"
Wrap(text) == "%" \o text \o "%"

\* a row passes  col1 LIKE ? OR col2 LIKE ? ...  with one pattern for all
AnyLike(row, cols, pat) == \E i \in DOMAIN cols : Like(row[cols[i]], pat)

Repeat(x, n) == [i \in 1..n |-> x]

RECURSIVE SearchTerms(_, _)
\* the terms the loops of intelligent_search visit: for each token in turn,
\* the terms of its expansion in the order of the list expand_query returns
SearchTerms(tokens, seed) ==
    IF tokens = <<>> THEN <<>>
    ELSE expanded_terms(Head(tokens), seed) \o SearchTerms(Tail(tokens), seed)

RECURSIVE Params(_)
\* params: fifteen copies of "%term%" for each term visited
Params(terms) ==
    IF terms = <<>> THEN <<>>
    ELSE Repeat(Wrap(Head(terms)), 15) \o Params(Tail(terms))

\* the values handed to execute, without the limit:  params + score_params
Bindings(tokens, seed) ==
    Params(SearchTerms(tokens, seed)) \o Repeat(Wrap(tokens[1]), 4)

\* The statement's placeholders are bound by position.  In the text of the
\* statement the four of the CASE expression come first, then the fifteen of
\* each condition of the WHERE clause, then the one of LIMIT

\* a WHERE clause whose patterns lost their term
SmartWhereNoTerm(row, bound) ==
    \E k \in 1..(Len(bound) - 4) :
        Like(row[SmartColumns[((k - 1) % 15) + 1]], "%")

\* the WHERE clause of intelligent_search: its k-th placeholder is the
\* (4 + k)-th of the statement and belongs to column ((k - 1) mod 15) + 1
SmartWhere(row, bound) ==
    \E k \in 1..(Len(bound) - 4) :
        Like(row[SmartColumns[((k - 1) % 15) + 1]], bound[4 + k])

\* the CASE expression that computes relevance_score: the first four
\* placeholders of the statement
relevance_score(row, bound) ==
    IF Like(row["Scientific_Name"], bound[1]) THEN 10
    ELSE IF Like(row["Genus"], bound[2]) THEN 8
    ELSE IF Like(row["Common_Names"], bound[3]) THEN 7
    ELSE IF Like(row["Flower_Color"], bound[4]) THEN 6
    ELSE 1

Score(row) == row["relevance_score"].n

\* x put behind the rows of its own score
InsertDescAfterTies(x, rows) ==
    LET before == {i \in 1..Len(rows) : \A j \in 1..i : Score(rows[j]) >= Score(x)}
        k == Cardinality(before)
    IN  SubSeq(rows, 1, k) \o <<x>> \o SubSeq(rows, k + 1, Len(rows))

\* x put before the first row of the sorted rows whose score does not exceed x's
InsertDesc(x, rows) ==
    LET before == {i \in 1..Len(rows) : \A j \in 1..i : Score(rows[j]) > Score(x)}
        k == Cardinality(before)
    IN  SubSeq(rows, 1, k) \o <<x>> \o SubSeq(rows, k + 1, Len(rows))

\* no ORDER BY: the rows in scan order
OrderUnsorted(rows) == rows

RECURSIVE OrderByScoreDesc(_)
\* ORDER BY relevance_score DESC; rows of equal score keep their scan order
OrderByScoreDesc(rows) ==
    IF rows = <<>> THEN <<>>
    ELSE InsertDesc(Head(rows), OrderByScoreDesc(Tail(rows)))

\* a search that runs one SELECT for the first condition of the WHERE clause
\* and one for the others, and appends the results
SmartHitsPerCondition(bound) ==
    LET passes(r, b) ==
            \E i \in 1..15 : Like(r[SmartColumns[i]], bound[4 + 15 * (b - 1) + i])
        n == (Len(bound) - 4) \div 15
    IN  SelectSeq(orchids, LAMBDA r : passes(r, 1))
            \o SelectSeq(orchids, LAMBDA r : \E b \in 2..n : passes(r, b))

\* FROM orchids WHERE ...: the rows that pass the WHERE clause, in rowid order
SmartHits(bound) == SelectSeq(orchids, LAMBDA r : SmartWhere(r, bound))

\* a statement that cuts the rows before it sorts them
LimitThenOrder(rows, limit) == OrderByScoreDesc(Limit(rows, limit))

\* ORDER BY relevance_score DESC LIMIT ?
OrderAndLimit(rows, limit) == Limit(OrderByScoreDesc(rows), limit)

WithScore(row, bound) ==
    ("relevance_score" :> I(relevance_score(row, bound))) @@ row

RECURSIVE MapScore(_, _)
MapScore(rows, bound) ==
    IF rows = <<>> THEN <<>>
    ELSE <<WithScore(Head(rows), bound)>> \o MapScore(Tail(rows), bound)

\* intelligent_search in a process whose hash seed is seed
SmartResult(query, limit, seed) ==
    IF query = "" THEN Returned(<<>>)
    ELSE LET tokens == preprocess_text(query)
         IN  IF tokens = <<>> THEN Returned(<<>>)
             ELSE IF health = "down" THEN Raised
             ELSE LET bound == Bindings(tokens, seed)
                      scored == MapScore(SmartHits(bound), bound)
                  IN  Returned(OrderAndLimit(scored, limit))

intelligent_search(query, limit) == SmartResult(query, limit, hashseed)

fallback_search(query, limit) ==
    IF health = "down" THEN Raised
    ELSE Returned(Limit(SelectSeq(orchids,
                                  LAMBDA r : AnyLike(r, FallbackColumns, Wrap(query))),
                        limit))

\* an except branch that gives up with an empty list
FallbackEmpty(query, limit) ==
    IF health = "down" THEN Raised ELSE [Returned(<<>>) EXCEPT !.fellback = TRUE]

\* the except branch of fulltext_search
Fallback(query, limit) == [fallback_search(query, limit) EXCEPT !.fellback = TRUE]

\* fulltext_search without its test for an empty query
fulltext_search_unguarded(query, limit) ==
    LET q == Strip(query)
        m == FtsMatch(q)
    IN  IF health = "ok" /\ m.ok
        THEN Returned(Limit(SelectSeq(orchids, LAMBDA r : r["id"].n \in m.rowids), limit))
        ELSE Fallback(q, limit)

\* a fulltext_search that also falls back when the engine matched nothing
fulltext_search_or_like(query, limit) ==
    LET q == Strip(query)
        m == FtsMatch(q)
        hits == SelectSeq(orchids, LAMBDA r : r["id"].n \in m.rowids)
    IN  IF q = "" THEN Returned(<<>>)
        ELSE IF health = "ok" /\ m.ok /\ hits # <<>>
             THEN Returned(Limit(hits, limit))
             ELSE Fallback(q, limit)

fulltext_search(query, limit) ==
    LET q == Strip(query)
    IN  IF q = "" THEN Returned(<<>>)
        ELSE LET m == FtsMatch(q)
             IN  IF health = "ok" /\ m.ok
                 THEN Returned(Limit(SelectSeq(orchids, LAMBDA r : r["id"].n \in m.rowids),
                                     limit))
                 ELSE Fallback(q, limit)

\* a test that takes an empty string for a value
HasTextPresent(filters, k) == k \in DOMAIN filters /\ filters[k].t = "str"

\* 'k' in filters and filters['k']   for a text filter: present and non-empty
HasText(filters, k) ==
    k \in DOMAIN filters /\ filters[k].t = "str" /\ filters[k].v # ""

\* a test by truth value, which takes a bound of 0 for no bound
HasNumTruthy(filters, k) ==
    k \in DOMAIN filters /\ filters[k].t # "none" /\ filters[k].n # 0

\* 'k' in filters and filters['k'] is not None
HasNum(filters, k) == k \in DOMAIN filters /\ filters[k].t # "none"

\* the fragrance condition of semantic_search
SemanticFragrance(row, v) ==
    IF LowerStr(v) = "fragrant"
    THEN Like(row["Fragrance"], "%fragrant%") \/ Like(row["Fragrance"], "%Fragrant%")
    ELSE Like(row["Fragrance"], Wrap(v))

\* the WHERE clause of semantic_search: the conditions ANDed, 1=1 when none
SemanticWhere(row, filters) ==
    /\ HasText(filters, "genus") => Like(row["Genus"], Wrap(filters["genus"].v))
    /\ HasText(filters, "flower_color")
          => Like(row["Flower_Color"], Wrap(filters["flower_color"].v))
    /\ HasNum(filters, "min_temp")
          => GeNum(row["Temperature_Min_C"], filters["min_temp"].n)
    /\ HasNum(filters, "max_temp")
          => LeNum(row["Temperature_Max_C"], filters["max_temp"].n)
    /\ HasText(filters, "native_region")
          => Like(row["Native_Regions"], Wrap(filters["native_region"].v))
    /\ HasText(filters, "fragrance")
          => SemanticFragrance(row, filters["fragrance"].v)
    /\ HasText(filters, "difficulty")
          => Like(row["Horticultural_Difficulty"], Wrap(filters["difficulty"].v))

\* the rows in the order the statement visits them: a lower bound on
\* Temperature_Min_C makes SQLite search index idx_temp and visit the rows in
\* the index's order, any other WHERE clause is a scan of the table by rowid
Scan(filters) ==
    IF HasNum(filters, "min_temp") THEN SortSeq(orchids, IdxTempBefore) ELSE orchids

semantic_search(limit, filters) ==
    IF health = "down" THEN Raised
    ELSE Returned(Limit(SelectSeq(Scan(filters), LAMBDA r : SemanticWhere(r, filters)),
                        limit))

\* if text_query:
HasQuery(text_query) == text_query.t = "str" /\ text_query.v # ""

\* a WHERE clause of combined_search that leaves the difficulty filter out
CombinedWhereNoDifficulty(row, text_query, filters) ==
    /\ HasQuery(text_query) => AnyLike(row, CombinedColumns, Wrap(text_query.v))
    /\ HasText(filters, "genus") => Like(row["Genus"], Wrap(filters["genus"].v))
    /\ HasText(filters, "flower_color")
          => Like(row["Flower_Color"], Wrap(filters["flower_color"].v))
    /\ HasText(filters, "native_region")
          => Like(row["Native_Regions"], Wrap(filters["native_region"].v))
    /\ HasText(filters, "fragrance")
          => \/ Like(row["Fragrance"], Wrap(filters["fragrance"].v))
             \/ Like(row["Fragrance_Description"], Wrap(filters["fragrance"].v))
    /\ HasNum(filters, "min_temp")
          => GeNum(row["Temperature_Min_C"], filters["min_temp"].n)
    /\ HasNum(filters, "max_temp")
          => LeNum(row["Temperature_Max_C"], filters["max_temp"].n)

\* the WHERE clause of combined_search
CombinedWhere(row, text_query, filters) ==
    /\ HasQuery(text_query) => AnyLike(row, CombinedColumns, Wrap(text_query.v))
    /\ HasText(filters, "genus") => Like(row["Genus"], Wrap(filters["genus"].v))
    /\ HasText(filters, "flower_color")
          => Like(row["Flower_Color"], Wrap(filters["flower_color"].v))
    /\ HasText(filters, "native_region")
          => Like(row["Native_Regions"], Wrap(filters["native_region"].v))
    /\ HasText(filters, "fragrance")
          => \/ Like(row["Fragrance"], Wrap(filters["fragrance"].v))
             \/ Like(row["Fragrance_Description"], Wrap(filters["fragrance"].v))
    /\ HasNum(filters, "min_temp")
          => GeNum(row["Temperature_Min_C"], filters["min_temp"].n)
    /\ HasNum(filters, "max_temp")
          => LeNum(row["Temperature_Max_C"], filters["max_temp"].n)
    /\ HasText(filters, "difficulty")
          => Like(row["Horticultural_Difficulty"], Wrap(filters["difficulty"].v))

combined_search(text_query, limit, filters) ==
    IF health = "down" THEN Raised
    ELSE Returned(Limit(SelectSeq(Scan(filters),
                                  LAMBDA r : CombinedWhere(r, text_query, filters)),
                        limit))

(***************************************************************************)
(* Ingestion: the CSV source and load_data_from_url                        *)
(***************************************************************************)

\* rows per CSV file, number of CSV files the source may serve, number of
\* times the session loads, largest limit a caller passes, number of hash
\* seeds the process may start with
MaxRows == 3
NumFiles == 2
MaxLoads == 2
MaxLimit == 5
NumSeeds == 2

\* number of browser sessions that share the cached database object
NumSessions == 2

\* the header of the CSV source: the table's column names, with "Order"
CsvColumns == ((TextColumns \ {"Order_Name"}) \cup {"Order"}) \cup RealColumns

Blank == [c \in CsvColumns |-> Str("")]

\* data rows the source may hold, as csv.DictReader yields them: a string
\* per column, None for the columns a short line does not reach
RowPool ==
    << ("Scientific_Name" :> Str("Euanthe sanderiana")) @@ ("Genus" :> Str("Vanda"))
         @@ ("Flower_Color" :> Str("Pink")) @@ ("Native_Regions" :> Str("Philippines"))
         @@ ("Common_Names" :> Str("Waling-waling orchid"))
         @@ ("Fragrance" :> Str("Fragrant"))
         @@ ("Horticultural_Difficulty" :> Str("Easy"))
         @@ ("Temperature_Min_C" :> Str("18")) @@ ("Temperature_Max_C" :> Str("30"))
         @@ ("Order" :> Str("Asparagales")) @@ Blank,
       ("Scientific_Name" :> Str("Vanda coerulea")) @@ ("Genus" :> Str("Vanda"))
         @@ ("Flower_Color" :> Str("Blue")) @@ ("Native_Regions" :> Str("India"))
         @@ ("Special_Features" :> Str("sweet-scented")) @@ ("Fragrance" :> Str("None"))
         @@ ("Growth_Habit" :> Str("Rosette"))
         @@ ("Temperature_Min_C" :> Str("12")) @@ ("Temperature_Max_C" :> Str("25"))
         @@ ("Order" :> Str("Asparagales")) @@ Blank,
       ("Scientific_Name" :> Str("Phalaenopsis amabilis"))
         @@ ("Genus" :> Str("Phalaenopsis")) @@ ("Flower_Color" :> Str("White"))
         @@ ("Common_Names" :> Str("Moth orchid"))
         @@ ("Native_Regions" :> Str("Southeast Asia"))
         @@ ("Horticultural_Difficulty" :> Str("Easy"))
         @@ ("Fragrance" :> PyNone) @@ ("Special_Features" :> PyNone)
         @@ ("Temperature_Min_C" :> PyNone) @@ ("Temperature_Max_C" :> PyNone)
         @@ Blank,
       ("Scientific_Name" :> Str("VANDA tricolor")) @@ ("Flower_Color" :> Str("Rose"))
         @@ ("Native_Regions" :> Str("Indonesia")) @@ ("Fragrance" :> Str("FRAGRANT"))
         @@ ("Temperature_Max_C" :> Str("20"))
         @@ Blank,
       ("Scientific_Name" :> Str("Cattleya labiata")) @@ ("Genus" :> Str("Cattleya"))
         @@ ("Common_Names" :> Str("\"Vanda\" of Brazil"))
         @@ ("Native_Regions" :> Str("Brazil")) @@ ("Growth_Habit" :> Str("pink sheath"))
         @@ ("Fragrance_Description" :> Str("rose"))
         @@ ("Temperature_Min_C" :> Str("15")) @@ ("Temperature_Max_C" :> Str("25"))
         @@ Blank >>

\* the k-th CSV file: MaxRows rows of the pool, taken cyclically from row k
CsvFile(k) ==
    [i \in 1..MaxRows |-> RowPool[((k + i - 2) % Len(RowPool)) + 1]]

\* what the URL may serve: one of the files, or a file with a header only
CsvFiles == {CsvFile(k) : k \in 1..NumFiles} \cup {<<>>}

\* db_col: the table column a CSV column is inserted into
db_col(col) == IF col = "Order" THEN "Order_Name" ELSE col

\* the row INSERT INTO orchids stores for one CSV row: each CSV column goes
\* to its db_col, the rowid is assigned by the table
InsertedRow(csvrow, id) ==
    [c \in Columns |->
        IF c = "id" THEN I(id)
        ELSE LET col == CHOOSE x \in CsvColumns : db_col(x) = c
             IN  StoreValue(c, csvrow[col])]

MaxId(rows) ==
    IF rows = <<>> THEN 0
    ELSE CHOOSE m \in {rows[i]["id"].n : i \in DOMAIN rows} :
             \A i \in DOMAIN rows : rows[i]["id"].n <= m

\* table orchids after the INSERT loop and its commit
InsertAll(rows, csv) ==
    rows \o [i \in 1..Len(csv) |-> InsertedRow(csv[i], MaxId(rows) + i)]

\* a count that misses the last row
RowCountShort(csv, count) ==
    IF csv = <<>> THEN count ELSE count + Len(csv) - 1

RECURSIVE RowCount(_, _)
\* count: incremented once for every row the reader yields
RowCount(csv, count) ==
    IF csv = <<>> THEN count ELSE RowCount(Tail(csv), count + 1)

\* the index after  INSERT INTO orchids_fts ... SELECT ... FROM orchids
BuildIndex(index, rows) == index \o [i \in 1..Len(rows) |-> FtsEntry(rows[i])]

(***************************************************************************)
(* Inputs of the calls                                                     *)
(***************************************************************************)

NoFilters == [k \in {} |-> PyNone]

\* query texts: empty and blank text, plain words, synonyms, stop-words,
\* FTS5 expressions the engine accepts and ones it rejects, with and without
\* surrounding blanks, and LIKE's wildcard characters
Queries ==
    {"", " ", "vanda", " Vanda ", "pink orchids", "vanda orchids", "the", "asia", "south",
     "moth OR rose", "vanda AND", "\"vanda", "sweet-scented", "sweet-scented ",
     " \"vanda", "%", "_"}

Limits == {-1, 0, 2, MaxLimit}

\* filter sets of semantic_search and combined_search
FilterBags ==
    { NoFilters,
      "genus" :> Str("Phalaenopsis"),
      "genus" :> Str("vanda"),
      "genus" :> Str("%"),
      "genus" :> Str("_a"),
      "genus" :> Str(""),
      "genus" :> PyNone,
      "flower_color" :> Str("PINK"),
      "native_region" :> Str("asia"),
      "fragrance" :> Str("Fragrant"),
      "fragrance" :> Str("rose"),
      "fragrance" :> Str(""),
      "difficulty" :> Str("eas_"),
      "color" :> Str("pink"),
      "min_temp" :> Num(15),
      "max_temp" :> Num(25),
      ("min_temp" :> Num(0)) @@ ("max_temp" :> PyNone),
      ("min_temp" :> Num(15)) @@ ("max_temp" :> Num(25)),
      ("genus" :> Str("vanda")) @@ ("flower_color" :> Str("")) @@
          ("native_region" :> Str("")) @@ ("fragrance" :> Str("")) @@
          ("min_temp" :> PyNone) @@ ("max_temp" :> Num(25)) }

\* texts handed to preprocess_text: those of the searches, None, and one
\* with upper case, a stop-word, a plural, a repeated word and a sign
PreprocessTexts ==
    {Str(q) : q \in Queries} \cup {PyNone, Str("the Roses rose %")}

CombinedTexts == {PyNone, Str(""), Str(" "), Str("vanda"), Str("rose")}

CombinedBags ==
    { NoFilters,
      "genus" :> Str("vanda"),
      "fragrance" :> Str("rose"),
      ("min_temp" :> Num(15)) @@ ("max_temp" :> Num(25)),
      ("min_temp" :> Num(0)) @@ ("max_temp" :> Num(30)) }

\* tokens handed to expand_query: every listed term and group name, in some
\* cases capitalised or padded, and words that no group lists
ExpandTokens ==
    UNION {Range(color_synonyms[i].terms) : i \in DOMAIN color_synonyms}
    \cup UNION {Range(region_synonyms[i].terms) : i \in DOMAIN region_synonyms}
    \cup {color_synonyms[i].name : i \in DOMAIN color_synonyms}
    \cup {"Rose", " pink ", "south", "america", "e", "vanda", "orchid", "rosey"}

(***************************************************************************)
(* The session: init_database, reset, retry, and the calls                 *)
(***************************************************************************)

NoCall == [query |-> PyNone, op |-> "none", limit |-> 0, filters |-> NoFilters]
NoOutcome == [terms |-> {}, rows |-> <<>>, kind |-> "none", fellback |-> FALSE]

Idle == call = NoCall

Sessions == 1..NumSessions

\* the cursor with no statement pending, and a session's thread between calls
NoCursor == <<0, <<>>>>
NoThread == <<"idle", "", NoOutcome>>

\* the state of the sessions that share the object
shared == <<cursor, threads>>

\* a test that takes every table for an empty one
TableEmptyAlways(rows) == TRUE

\* if count == 0, count being SELECT COUNT(*) FROM orchids
TableEmpty(rows) == Len(rows) = 0

Init ==
    /\ orchids = <<>>
    /\ committed = <<>>
    /\ orchids_fts = <<>>
    /\ health = "ok"
    /\ cached = FALSE
    /\ data_loaded = FALSE
    /\ loads = 0
    /\ load_info = PyNone
    /\ hashseed \in 0..(NumSeeds - 1)
    /\ call = NoCall
    /\ outcome = NoOutcome
    /\ cursor = NoCursor
    /\ threads = [s \in Sessions |-> NoThread]

\* init_database(), run by the script when the cache holds no result:
\* connect, create_tables (which creates a missing index table, empty), then
\* load the CSV if table orchids is empty.  fault is what goes wrong in
\* load_data_from_url: nothing, the download, or the building of the index.
\* The rows inserted are committed before the index is built
InitDatabase(csv, fault) ==
    /\ Idle
    /\ ~cached
    /\ loads < MaxLoads
    /\ health # "down"
    /\ LET index == IF health = "no_fts" THEN <<>> ELSE orchids_fts
       IN  IF TableEmpty(orchids)
           THEN CASE fault = "none" ->
                       /\ orchids' = InsertAll(orchids, csv)
                       /\ orchids_fts' = BuildIndex(index, InsertAll(orchids, csv))
                       /\ data_loaded' = TRUE
                       /\ load_info' = Num(RowCount(csv, 0))
                  [] fault = "download" ->
                       /\ orchids' = orchids
                       /\ orchids_fts' = index
                       /\ data_loaded' = FALSE
                       /\ load_info' = Str("error")
                  [] fault = "index" ->
                       /\ orchids' = InsertAll(orchids, csv)
                       /\ orchids_fts' = index
                       /\ data_loaded' = FALSE
                       /\ load_info' = Str("error")
           ELSE /\ orchids' = orchids
                /\ orchids_fts' = index
                /\ data_loaded' = TRUE
                /\ load_info' = Num(Len(orchids))
    /\ health' = "ok"
    /\ cached' = TRUE
    /\ loads' = loads + 1
    /\ committed' = orchids'
    /\ UNCHANGED <<hashseed, call, outcome, shared>>

\* the Reset Database button: DELETE FROM orchids, DELETE FROM orchids_fts,
\* commit, clear the cache, rerun.  The index is an external-content table:
\* its DELETE visits the rows of orchids, which are gone by then, and removes
\* no entry.  When the index table is missing the second DELETE raises, after
\* the first took effect on the shared connection: nothing is committed or
\* rolled back, the cache is kept and the script goes on
Reset ==
    /\ Idle
    /\ cached
    /\ data_loaded
    /\ health # "down"
    /\ orchids' = <<>>
    /\ committed' = IF health = "ok" THEN <<>> ELSE committed
    /\ cached' = (health # "ok")
    /\ UNCHANGED <<orchids_fts, health, data_loaded, loads, load_info, hashseed, call, outcome,
                 shared>>

\* the Retry Loading button: clear the cache, rerun
Retry ==
    /\ Idle
    /\ cached
    /\ ~data_loaded
    /\ cached' = FALSE
    /\ UNCHANGED <<orchids, committed, orchids_fts, health, data_loaded, loads, load_info,
                 hashseed, call, outcome, shared>>

\* the store fails or recovers under the running application
StoreFault ==
    /\ Idle
    /\ cached
    /\ \/ /\ health = "ok"
          /\ health' = "no_fts"
          /\ orchids_fts' = <<>>
       \/ /\ health = "ok"
          /\ health' = "down"
          /\ UNCHANGED orchids_fts
       \/ /\ health = "down"
          /\ health' = "ok"
          /\ UNCHANGED orchids_fts
    /\ UNCHANGED <<orchids, committed, cached, data_loaded, loads, load_info, hashseed, call,
                 outcome, shared>>

\* the server process is started anew: the cache and the session state are
\* gone, the hash seed is drawn again, and the next connection sees file
\* orchids.db as it was last committed
Restart ==
    /\ Idle
    /\ cached
    /\ cached' = FALSE
    /\ data_loaded' = FALSE
    /\ load_info' = PyNone
    /\ hashseed' \in 0..(NumSeeds - 1)
    /\ orchids' = committed
    /\ UNCHANGED <<committed, orchids_fts, health, loads, call, outcome, shared>>

\* the main content runs only when data_loaded is set
CanSearch == Idle /\ cached /\ data_loaded

Invoke(op, query, limit, filters, result) ==
    /\ CanSearch
    /\ call' = [query |-> query, op |-> op, limit |-> limit, filters |-> filters]
    /\ outcome' = result
    /\ UNCHANGED <<orchids, committed, orchids_fts, health, cached, data_loaded, loads,
                 load_info, hashseed, shared>>

IntelligentSearch(q, l) ==
    Invoke("intelligent_search", Str(q), l, NoFilters, intelligent_search(q, l))

FulltextSearch(q, l) ==
    Invoke("fulltext_search", Str(q), l, NoFilters, fulltext_search(q, l))

FallbackSearch(q, l) ==
    Invoke("fallback_search", Str(q), l, NoFilters, fallback_search(q, l))

SemanticSearch(l, f) ==
    Invoke("semantic_search", PyNone, l, f, semantic_search(l, f))

CombinedSearch(t, l, f) ==
    Invoke("combined_search", t, l, f, combined_search(t, l, f))

ExpandQuery(tk) ==
    Invoke("expand_query", Str(tk), 0, NoFilters,
           [Returned(<<>>) EXCEPT !.terms = expand_query(tk)])

PreprocessText(t) ==
    Invoke("preprocess_text", t, 0, NoFilters, Returned(Preprocess(t)))

\* the script run ends: the result has been rendered
Done ==
    /\ ~Idle
    /\ call' = NoCall
    /\ outcome' = NoOutcome
    /\ UNCHANGED <<orchids, committed, orchids_fts, health, cached, data_loaded, loads,
                 load_info, hashseed, shared>>

Next ==
    \/ \E csv \in CsvFiles, fault \in {"none", "download", "index"} :
           InitDatabase(csv, fault)
    \/ Reset
    \/ Retry
    \/ StoreFault
    \/ Restart
    \/ \E q \in Queries, l \in Limits : IntelligentSearch(q, l)
    \/ \E q \in Queries, l \in Limits : FulltextSearch(q, l)
    \/ \E q \in Queries, l \in Limits : FallbackSearch(q, l)
    \/ \E l \in Limits, f \in FilterBags : SemanticSearch(l, f)
    \/ \E t \in CombinedTexts, l \in Limits, f \in CombinedBags : CombinedSearch(t, l, f)
    \/ \E tk \in ExpandTokens : ExpandQuery(tk)
    \/ \E t \in PreprocessTexts : PreprocessText(t)
    \/ Done

Spec == Init /\ [][Next]_vars

(***************************************************************************)
(* Several sessions on the one cached object.  st.cache_resource hands the  *)
(* OrchidSearchDB that init_database returned to every session; each        *)
(* session's script run is a thread of the server, the connection is opened *)
(* with check_same_thread=False, and no lock guards self.cursor.  A search  *)
(* is two calls on that cursor, execute and fetchall, and the threads'      *)
(* calls interleave.                                                       *)
(***************************************************************************)

\* what the sessions type into Smart Search
SharedQueries == {"vanda", "pink orchids"}

Phase(s) == threads[s][1]

\* another session's call is between its execute and its fetchall
OtherInFlight(s) == \E o \in Sessions \ {s} : Phase(o) = "executed"

\* self.cursor.execute(sql, ...) of intelligent_search in session s: the
\* statement replaces whatever was pending on the cursor.  While another
\* thread is inside a call on the cursor, sqlite3 may refuse the call
SharedExecute(s, q) ==
    /\ cached /\ data_loaded /\ health = "ok"
    /\ Phase(s) = "idle"
    /\ \/ /\ cursor' = <<s, intelligent_search(q, MaxLimit).rows>>
          /\ threads' = [threads EXCEPT ![s] = <<"executed", q, NoOutcome>>]
       \/ /\ OtherInFlight(s)
          /\ threads' = [threads EXCEPT ![s] = <<"fetched", q, Raised>>]
          /\ UNCHANGED cursor
    /\ UNCHANGED <<orchids, committed, orchids_fts, health, cached, data_loaded, loads,
                 load_info, hashseed, call, outcome>>

\* the results fetchall can give session s.  Alone on the cursor since its
\* execute, s gets the rows pending, which are those of its statement.  When
\* another session executed in between or is in flight, the two threads use
\* the cursor unsynchronized: s gets the rows pending, or the part of them
\* the other thread left, or sqlite3 refuses the call
FetchResults(s) ==
    LET rows == cursor[2]
    IN  IF cursor[1] = s /\ ~OtherInFlight(s)
        THEN {Returned(rows)}
        ELSE {Returned(SubSeq(rows, k, Len(rows))) : k \in 1..(Len(rows) + 1)}
                 \cup {Raised}

\* self.cursor.fetchall() of intelligent_search in session s
SharedFetch(s) ==
    /\ Phase(s) = "executed"
    /\ \E res \in FetchResults(s) :
           threads' = [threads EXCEPT ![s] = <<"fetched", threads[s][2], res>>]
    /\ cursor' = NoCursor
    /\ UNCHANGED <<orchids, committed, orchids_fts, health, cached, data_loaded, loads,
                 load_info, hashseed, call, outcome>>

\* the script run of session s ends
SharedReturn(s) ==
    /\ Phase(s) = "fetched"
    /\ threads' = [threads EXCEPT ![s] = NoThread]
    /\ UNCHANGED <<orchids, committed, orchids_fts, health, cached, data_loaded, loads,
                 load_info, hashseed, call, outcome, cursor>>

\* two threads inside the sqlite3 module on one cursor can bring the
\* process down: every session is gone with it
Crash ==
    /\ \E s \in Sessions : Phase(s) = "executed" /\ OtherInFlight(s)
    /\ threads' = [s \in Sessions |-> NoThread]
    /\ cursor' = NoCursor
    /\ cached' = FALSE
    /\ data_loaded' = FALSE
    /\ load_info' = PyNone
    /\ hashseed' \in 0..(NumSeeds - 1)
    /\ orchids' = committed
    /\ UNCHANGED <<committed, orchids_fts, health, loads, call, outcome>>

NextShared ==
    \/ \E csv \in CsvFiles, fault \in {"none", "download", "index"} :
           InitDatabase(csv, fault)
    \/ Retry
    \/ \E s \in Sessions, q \in SharedQueries : SharedExecute(s, q)
    \/ \E s \in Sessions : SharedFetch(s)
    \/ \E s \in Sessions : SharedReturn(s)
    \/ Crash

SpecShared == Init /\ [][NextShared]_vars

(***************************************************************************)
(* Properties                                                              *)
(***************************************************************************)

Called(op) == call.op = op
ReturnedRows == outcome.kind = "returned"
QueryText == call.query.v
IsBlank(text) == Strip(text) = ""
RowIds(rows) == [i \in DOMAIN rows |-> rows[i]["id"].n]
StoreIds == RowIds(orchids)

\* text a occurs in text b as a substring, letter case ignored
ContainsCI(b, a) == InStr(LowerStr(a), LowerStr(b))

\* a text column of the row holds the text as a substring, case ignored
FieldContains(row, col, text) == row[col].t = "text" /\ ContainsCI(row[col].v, text)
AnyFieldContains(row, cols, text) == \E i \in DOMAIN cols : FieldContains(row, cols[i], text)

TextPaths == {"intelligent_search", "fulltext_search", "fallback_search", "combined_search"}
SearchPaths == TextPaths \cup {"semantic_search"}

EngineRejects(text) == ~FtsMatch(Strip(text)).ok

\* C2 as stated: for raw query text the full-text engine rejects, leading or
\* trailing whitespace included, fulltext_search(text, limit) does not raise
\* and returns what fallback_search(text, limit) returns for the same raw text.
C2_SameAsFallbackOnRawText ==
    (Called("fulltext_search") /\ health = "ok" /\ ~IsBlank(QueryText)
        /\ EngineRejects(QueryText) /\ call.limit >= 0)
        => (ReturnedRows /\ outcome.rows = fallback_search(QueryText, call.limit).rows)

\* C2 amended: for raw query text the full-text engine rejects,
\* fulltext_search(text, limit) does not raise and returns what
\* fallback_search returns for the text stripped of leading and trailing
\* whitespace.
C2_SameAsFallbackOnStrippedText ==
    (Called("fulltext_search") /\ health = "ok" /\ ~IsBlank(QueryText)
        /\ EngineRejects(QueryText))
        => (/\ ReturnedRows
            /\ outcome.fellback
            /\ outcome.rows = fallback_search(Strip(QueryText), call.limit).rows)

C2_Witness ==
    /\ Called("fulltext_search")
    /\ health = "ok"
    /\ QueryText = "sweet-scented "
    /\ EngineRejects(QueryText)
    /\ ReturnedRows /\ outcome.rows # <<>>
    /\ fallback_search(QueryText, call.limit).rows = <<>>

\* C3 as stated: a connectivity or schema failure of the store (unreachable,
\* or the full-text index table missing) during fulltext_search propagates to
\* the caller and is not replaced by the fallback result.  Stated for a
\* populated store, a well-formed query and a positive limit.
C3_StoreFailurePropagates ==
    (Called("fulltext_search") /\ ~IsBlank(QueryText) /\ ~EngineRejects(QueryText)
        /\ health # "ok" /\ call.limit > 0 /\ orchids # <<>>)
        => outcome.kind = "raised"

\* C4 as stated: on every search path, for every store content and every
\* limit the caller passes, the returned list has at most limit records: it
\* holds no record beyond the first limit ones.
C4_AtMostLimitAnyLimit ==
    (call.op \in SearchPaths /\ ReturnedRows)
        => \A i \in DOMAIN outcome.rows : i <= call.limit

\* C4 amended: on every search path, for every store content and every
\* limit >= 0 the caller passes, the returned list has at most limit records
\* (a negative limit is no limit to the store).
C4_AtMostLimit ==
    (call.op \in SearchPaths /\ ReturnedRows /\ call.limit >= 0)
        => Len(outcome.rows) <= call.limit

C4_Witness ==
    /\ Called("semantic_search")
    /\ call.filters = NoFilters
    /\ call.limit > 0 /\ call.limit < Len(orchids)
    /\ ReturnedRows /\ Len(outcome.rows) = call.limit

\* C5: every record intelligent_search returns holds, case ignored, as a
\* substring of one of the fifteen scanned fields, a term of the synonym
\* expansion of a normalized token of the query.
C5_SmartResultsMatch ==
    (Called("intelligent_search") /\ ReturnedRows)
        => \A i \in DOMAIN outcome.rows :
              LET tokens == preprocess_text(QueryText)
              IN  \E k \in DOMAIN tokens :
                      \E term \in expand_query(tokens[k]) :
                          AnyFieldContains(outcome.rows[i], SmartColumns, term)

\* a query whose result holds a record found under a synonym only, while the
\* store holds a record that does not qualify
C5_Witness ==
    /\ Called("intelligent_search")
    /\ QueryText = "pink orchids"
    /\ ReturnedRows
    /\ \E i \in DOMAIN outcome.rows :
          /\ ~AnyFieldContains(outcome.rows[i], SmartColumns, "pink")
          /\ AnyFieldContains(outcome.rows[i], SmartColumns, "rose")
    /\ Len(outcome.rows) < Len(orchids)
    /\ call.limit >= Len(orchids)

Position(ids, id) == CHOOSE i \in DOMAIN ids : ids[i] = id

AllGroups == color_synonyms \o region_synonyms

\* the groups whose term list holds the token, lower-cased and stripped
GroupsListing(token) ==
    {i \in DOMAIN AllGroups : Strip(LowerStr(token)) \in Range(AllGroups[i].terms)}

\* C7 as stated: for a token listed in exactly one synonym group ("asia" in
\* the asia group), expand_query returns that group's terms and the token,
\* and no term of another group.
C7_OneGroupExactly ==
    (Called("expand_query") /\ Cardinality(GroupsListing(QueryText)) = 1)
        => LET g == CHOOSE i \in GroupsListing(QueryText) : TRUE
           IN  outcome.terms = Range(AllGroups[g].terms) \cup {Strip(LowerStr(QueryText))}

\* C8 as stated: for a token no colour or region group lists ("south",
\* "america", a single letter), expand_query returns the set holding just the
\* token: groups match by membership, never by substring.
C8_UnlistedTokenAlone ==
    (Called("expand_query") /\ GroupsListing(QueryText) = {})
        => outcome.terms = {Strip(LowerStr(QueryText))}

ColorGroupsListing(token) ==
    {i \in DOMAIN color_synonyms :
        Strip(LowerStr(token)) \in Range(color_synonyms[i].terms)}

\* C9: expanding a member of a colour group gives the whole group (for "rose":
\* pink, rose, magenta, fuchsia), the same set for every member of the group,
\* and expanding any member of the output gives that set again.
C9_ColourGroupClosed ==
    (Called("expand_query") /\ ColorGroupsListing(QueryText) # {})
        => \A g \in ColorGroupsListing(QueryText) :
              /\ outcome.terms = Range(color_synonyms[g].terms)
              /\ \A m \in outcome.terms : expand_query(m) = outcome.terms

C9_Witness ==
    /\ Called("expand_query")
    /\ QueryText = "rose"
    /\ outcome.terms = {"pink", "rose", "magenta", "fuchsia"}

\* the text filters of semantic_search and the column each one constrains
TextFilterColumn ==
    ("genus" :> "Genus") @@ ("flower_color" :> "Flower_Color")
    @@ ("native_region" :> "Native_Regions") @@ ("fragrance" :> "Fragrance")
    @@ ("difficulty" :> "Horticultural_Difficulty")

\* C10 as stated: for every text filter given a non-empty value of any
\* characters, every record semantic_search returns holds that value as a
\* case-insensitive substring of the filter's field.
C10_FilterValueIsSubstring ==
    (Called("semantic_search") /\ ReturnedRows /\ call.limit >= 0)
        => \A k \in DOMAIN TextFilterColumn :
              HasText(call.filters, k)
                  => \A i \in DOMAIN outcome.rows :
                        FieldContains(outcome.rows[i], TextFilterColumn[k],
                                      call.filters[k].v)

\* C11 as stated: combined_search with text absent and filters min_temp = lo,
\* max_temp = hi returns only records whose Temperature_Min_C is a number
\* >= lo and whose Temperature_Max_C is a number <= hi.
C11_TemperatureRange ==
    (Called("combined_search") /\ ~HasQuery(call.query) /\ ReturnedRows
        /\ HasNum(call.filters, "min_temp") /\ HasNum(call.filters, "max_temp"))
        => \A i \in DOMAIN outcome.rows :
              LET lo == outcome.rows[i]["Temperature_Min_C"]
                  hi == outcome.rows[i]["Temperature_Max_C"]
              IN  /\ lo.t = "real" /\ lo.n >= call.filters["min_temp"].n
                  /\ hi.t = "real" /\ hi.n <= call.filters["max_temp"].n

\* the filter names semantic_search knows
RecognizedFilters ==
    {"genus", "flower_color", "min_temp", "max_temp", "native_region",
     "fragrance", "difficulty"}

\* key k of the filters is unrecognized, or recognized with an absent value
\* (None) or, for a text filter, an empty one
Ineffective(filters, k) ==
    \/ k \notin RecognizedFilters
    \/ filters[k] = PyNone
    \/ k \notin {"min_temp", "max_temp"} /\ filters[k] = Str("")

WithoutKey(filters, k) == [x \in (DOMAIN filters) \ {k} |-> filters[x]]

\* C12: in semantic_search (store reachable, limit >= 0) a filter key that is
\* unrecognized, or recognized with an absent or empty value, raises no error
\* and changes nothing: the result is that of the call without the key; and
\* when no key is effective the result is the first min(limit, N) records of
\* the store.
C12_IneffectiveFiltersIgnored ==
    (Called("semantic_search") /\ health # "down" /\ call.limit >= 0)
        => /\ ReturnedRows
           /\ \A k \in DOMAIN call.filters :
                 Ineffective(call.filters, k)
                     => outcome = semantic_search(call.limit, WithoutKey(call.filters, k))
           /\ (\A k \in DOMAIN call.filters : Ineffective(call.filters, k))
                 => outcome.rows = SubSeq(orchids, 1, Min(call.limit, Len(orchids)))

\* a call whose only filter has an empty value, on a store holding a record
\* whose fragrance is NULL, cut by the limit
C12_Witness ==
    /\ Called("semantic_search")
    /\ call.filters = ("fragrance" :> Str(""))
    /\ call.limit = 2 /\ Len(orchids) > 2
    /\ \E i \in 1..2 : orchids[i]["Fragrance"] = SqlNull
    /\ ReturnedRows /\ RowIds(outcome.rows) = SubSeq(StoreIds, 1, 2)

\* C13: in the result list of every search path each record identifier
\* occurs at most once, also when the record matches several tokens, several
\* synonyms or several fields.
C13_NoDuplicateRecords ==
    (call.op \in SearchPaths /\ ReturnedRows)
        => \A i, j \in DOMAIN outcome.rows :
              outcome.rows[i]["id"] = outcome.rows[j]["id"] => i = j

\* a record found under two tokens and in two fields is listed once
C13_Witness ==
    /\ Called("intelligent_search")
    /\ QueryText = "pink orchids"
    /\ ReturnedRows
    /\ \E i \in DOMAIN outcome.rows :
          /\ FieldContains(outcome.rows[i], "Flower_Color", "pink")
          /\ FieldContains(outcome.rows[i], "Common_Names", "orchid")

\* what the call of the current state returns when it is made on the same
\* store by a process whose hash seed is seed
SameCall(seed) ==
    CASE Called("intelligent_search") -> SmartResult(QueryText, call.limit, seed)
      [] Called("fulltext_search") -> fulltext_search(QueryText, call.limit)
      [] Called("fallback_search") -> fallback_search(QueryText, call.limit)
      [] Called("semantic_search") -> semantic_search(call.limit, call.filters)
      [] Called("combined_search") -> combined_search(call.query, call.limit, call.filters)

\* C14 as stated, its second half: a search call is a function of its
\* arguments and the store's contents, so that the same call on the same
\* store returns the same result, in this run of the application or another.
C14_SameResultOnSameStore ==
    (call.op \in SearchPaths)
        => \A seed \in 0..(NumSeeds - 1) : outcome = SameCall(seed)

\* the index holds one entry per row of table orchids, made of that row
IndexInSync ==
    /\ Len(orchids_fts) = Len(orchids)
    /\ \A i \in DOMAIN orchids : orchids_fts[i] = FtsEntry(orchids[i])
    /\ {orchids_fts[i].rowid : i \in DOMAIN orchids_fts} = Range(StoreIds)

\* a step in which init_database found the table empty and its bulk load
\* of a file with rows ran to the end
LoadCompletes ==
    /\ loads' = loads + 1
    /\ orchids = <<>>
    /\ orchids' # <<>>
    /\ data_loaded'

\* C15 as stated: after a bulk load that completes, the full-text index
\* holds exactly one entry for each record of table orchids (same
\* identifier, the thirteen columns), and the identifiers the index can
\* return are those of the stored records.
C15_IndexMirrorsStore == [][LoadCompletes => IndexInSync']_vars

\* the rows of table orchids are those of file csv, column by column
StoredFrom(csv) ==
    /\ Len(orchids) = Len(csv)
    /\ \A i \in DOMAIN csv :
          \A col \in CsvColumns :
              orchids[i][IF col = "Order" THEN "Order_Name" ELSE col]
                  = StoreValue(IF col = "Order" THEN "Order_Name" ELSE col, csv[i][col])

\* C16: when a load into the empty table completes, the table holds the
\* rows of a file the source serves, the file's column "Order" stored in
\* column "Order_Name" and every other column in the column of its own name,
\* and the count load_data_from_url returned is the number of those rows.
C16_OrderRenamedAndCounted ==
    [][(loads' = loads + 1 /\ orchids = <<>> /\ data_loaded')
          => \E csv \in CsvFiles :
                /\ StoredFrom(csv)'
                /\ load_info' = Num(Len(csv))]_vars

\* a loaded store whose first record came with an "Order" cell
C16_Witness ==
    /\ data_loaded /\ loads = 1
    /\ Len(orchids) = MaxRows
    /\ orchids[1]["Order_Name"] = T("Asparagales")
    /\ orchids[1]["Scientific_Name"] = T("Euanthe sanderiana")
    /\ load_info = Num(MaxRows)

\* the score section 4.3 gives a record for the first token of the query
ScoreByFirstToken(row, token) ==
    IF FieldContains(row, "Scientific_Name", token) THEN 10
    ELSE IF FieldContains(row, "Genus", token) THEN 8
    ELSE IF FieldContains(row, "Common_Names", token) THEN 7
    ELSE IF FieldContains(row, "Flower_Color", token) THEN 6
    ELSE 1

\* C17 as stated: the relevance score of a record intelligent_search returns
\* is fixed by the first normalized token of the query alone: 10 if the token
\* occurs in the scientific name, else 8 for the genus, 7 for the common
\* names, 6 for the flower colour, else 1; a record found only under a
\* synonym of the first token or under a later token scores 1.
C17_ScoreFromFirstToken ==
    (Called("intelligent_search") /\ ReturnedRows /\ call.limit > 0)
        => \A i \in DOMAIN outcome.rows :
              Score(outcome.rows[i])
                  = ScoreByFirstToken(outcome.rows[i], preprocess_text(QueryText)[1])

\* the rows of the store the statement of the current intelligent_search
\* call selects, with their scores, in rowid order
Qualifying ==
    LET bound == Bindings(preprocess_text(QueryText), hashseed)
    IN  MapScore(SmartHits(bound), bound)

\* C18: the result of intelligent_search (limit >= 0) is in non-increasing
\* order of relevance score, and the limit cuts after the sort: a qualifying
\* record that is left out scores no more than any record returned.
C18_SortedThenLimited ==
    (Called("intelligent_search") /\ ReturnedRows /\ outcome.rows # <<>>
        /\ call.limit >= 0)
        => /\ \A i, j \in DOMAIN outcome.rows :
                 i < j => Score(outcome.rows[i]) >= Score(outcome.rows[j])
           /\ \A k \in DOMAIN Qualifying :
                 Qualifying[k] \notin Range(outcome.rows)
                     => \A i \in DOMAIN outcome.rows :
                           Score(Qualifying[k]) <= Score(outcome.rows[i])

\* three records qualify, the limit is two, and the record left out is the
\* second of the store
C18_Witness ==
    /\ Called("intelligent_search")
    /\ QueryText = "vanda orchids"
    /\ call.limit = 2
    /\ ReturnedRows
    /\ Len(Qualifying) = 3
    /\ RowIds(outcome.rows) = <<1, 3>>
    /\ Score(Qualifying[2]) < Score(outcome.rows[2])

\* C19: records of equal relevance score are listed by intelligent_search in
\* the order of the store (ascending identifier): the sort is stable and
\* nothing else orders the result.
C19_TiesKeepStoreOrder ==
    (Called("intelligent_search") /\ ReturnedRows)
        => \A i, j \in DOMAIN outcome.rows :
              (i < j /\ Score(outcome.rows[i]) = Score(outcome.rows[j]))
                  => Position(StoreIds, outcome.rows[i]["id"].n)
                        < Position(StoreIds, outcome.rows[j]["id"].n)

\* the first and the third record of the store tie and keep their order,
\* the second scores less and comes last
C19_Witness ==
    /\ Called("intelligent_search")
    /\ QueryText = "vanda orchids"
    /\ ReturnedRows
    /\ RowIds(outcome.rows) = <<1, 3, 2>>
    /\ Score(outcome.rows[1]) = Score(outcome.rows[2])
    /\ Score(outcome.rows[2]) > Score(outcome.rows[3])

\* the record holds, in one of the fifteen fields, a term of the expansion
\* of a normalized token of the text
QualifiesFor(row, text) ==
    LET tokens == preprocess_text(text)
    IN  \E k \in DOMAIN tokens :
            \E term \in expand_query(tokens[k]) :
                AnyFieldContains(row, SmartColumns, term)

\* C20 as stated: a record that holds any expanded term of any one token in
\* any of the fifteen fields qualifies, whatever the other tokens, and when
\* intelligent_search returns fewer than limit records its result holds every
\* qualifying record of the store.
C20_EveryQualifyingRecord ==
    (Called("intelligent_search") /\ ReturnedRows /\ Len(outcome.rows) < call.limit)
        => \A i \in DOMAIN orchids :
              QualifiesFor(orchids[i], QueryText)
                  => StoreIds[i] \in Range(RowIds(outcome.rows))

\* the tokens of the lower-cased text that are alphanumeric and no stop-word
KeptTokens(text) ==
    SelectSeq(word_tokenize(LowerStr(text)),
              LAMBDA tk : IsAlnum(tk) /\ tk \notin stop_words)

\* C21: preprocess_text returns the empty sequence for None and for the
\* empty text; for any other text its output is, position by position, the
\* root form of the text's lower-cased word tokens that are alphanumeric and
\* no stop-word, in their order and with repetitions; and intelligent_search
\* on a text whose output is empty returns an empty result without a query
\* to the store, so also while the store cannot be reached.
C21_TokensInOrderOrNone ==
    /\ Called("preprocess_text")
          => /\ ReturnedRows
             /\ IF call.query = PyNone \/ call.query = Str("")
                THEN outcome.rows = <<>>
                ELSE LET kept == KeptTokens(QueryText)
                     IN  /\ Len(outcome.rows) = Len(kept)
                         /\ \A i \in DOMAIN kept : outcome.rows[i] = lemmatize(kept[i])
    /\ (Called("intelligent_search") /\ Preprocess(call.query) = <<>>)
          => (ReturnedRows /\ outcome.rows = <<>>)

\* a text whose plural and singular give the same root form twice
C21_Witness ==
    /\ Called("preprocess_text")
    /\ call.query = Str("the Roses rose %")
    /\ outcome.rows = <<"rose", "rose">>

\* the records of the store that hold the text, as it was typed, in one of
\* the six fields of fallback_search, case ignored
HoldingRawText(text) ==
    SelectSeq(orchids, LAMBDA r : AnyFieldContains(r, FallbackColumns, text))

\* C22 as stated: fallback_search(text, limit), limit >= 0, returns in the
\* order of the store the first limit of exactly the records that hold the
\* raw text as a case-insensitive substring of one of the six fields, for
\* every text, a text with the characters % or _ included.
C22_RawSubstringAnyText ==
    (Called("fallback_search") /\ ReturnedRows /\ call.limit >= 0)
        => outcome.rows = Limit(HoldingRawText(QueryText), call.limit)

\* the execute of fulltext_search raises: the engine rejects the query, the
\* index table is missing, or the store cannot be reached
EngineFails(text) == health # "ok" \/ EngineRejects(text)

\* the records of the store whose identifier the MATCH primitive returns
MatchedRecords(text) ==
    SelectSeq(orchids, LAMBDA r : r["id"].n \in FtsMatch(Strip(text)).rowids)

\* C23: fulltext_search on a non-blank text takes its fallback path exactly
\* when the engine fails.  When the engine accepts the query the result is
\* the records whose identifier the full-text primitive matched, cut at the
\* limit, also when there is none, and fallback_search is not called.  When
\* the engine fails the result is that of one call of fallback_search, its
\* failure included: nothing is tried again.
C23_FallbackOnlyOnFailure ==
    (Called("fulltext_search") /\ ~IsBlank(QueryText))
        => /\ outcome.fellback <=> EngineFails(QueryText)
           /\ ~EngineFails(QueryText)
                 => /\ ReturnedRows
                    /\ outcome.rows = Limit(MatchedRecords(QueryText), call.limit)
           /\ EngineFails(QueryText)
                 => /\ outcome.kind = fallback_search(Strip(QueryText), call.limit).kind
                    /\ outcome.rows = fallback_search(Strip(QueryText), call.limit).rows

\* the engine accepts the query and matches nothing, while the substring
\* search would have found a record
C23_Witness ==
    /\ Called("fulltext_search")
    /\ QueryText = "south"
    /\ ~EngineFails(QueryText)
    /\ call.limit > 0
    /\ ReturnedRows /\ outcome.rows = <<>> /\ ~outcome.fellback
    /\ fallback_search(QueryText, call.limit).rows # <<>>

\* the text filters of combined_search that constrain one column each
CombinedFilterColumn ==
    ("genus" :> "Genus") @@ ("flower_color" :> "Flower_Color")
    @@ ("native_region" :> "Native_Regions")
    @@ ("difficulty" :> "Horticultural_Difficulty")

\* the record satisfies every component that is present in the call: the
\* text, the text filters, the fragrance filter and the temperature bounds
SatisfiesComponents(row, text_query, filters) ==
    /\ HasQuery(text_query) => AnyFieldContains(row, CombinedColumns, text_query.v)
    /\ \A k \in DOMAIN CombinedFilterColumn :
          HasText(filters, k) => FieldContains(row, CombinedFilterColumn[k], filters[k].v)
    /\ HasText(filters, "fragrance")
          => \/ FieldContains(row, "Fragrance", filters["fragrance"].v)
             \/ FieldContains(row, "Fragrance_Description", filters["fragrance"].v)
    /\ HasNum(filters, "min_temp")
          => /\ row["Temperature_Min_C"].t = "real"
             /\ row["Temperature_Min_C"].n >= filters["min_temp"].n
    /\ HasNum(filters, "max_temp")
          => /\ row["Temperature_Max_C"].t = "real"
             /\ row["Temperature_Max_C"].n <= filters["max_temp"].n

\* C24 as stated: combined_search (limit >= 0) returns records that satisfy
\* the conjunction of all present components, and as many of them as the
\* limit allows: all of them when they are no more than limit, else limit;
\* an absent component constrains nothing.
C24_ConjunctionOfComponents ==
    (Called("combined_search") /\ ReturnedRows /\ call.limit >= 0)
        => LET sat == {i \in DOMAIN orchids :
                          SatisfiesComponents(orchids[i], call.query, call.filters)}
           IN  /\ \A i \in DOMAIN outcome.rows :
                     SatisfiesComponents(outcome.rows[i], call.query, call.filters)
               /\ Len(outcome.rows) = Min(call.limit, Cardinality(sat))

\* a step in which the script invokes an operation of the database object
SearchStarts == Idle /\ call' # NoCall

\* a step in which init_database ran
InitRuns == loads' = loads + 1

\* a step in which the Reset Database button emptied table orchids
ResetEmpties == Idle /\ cached /\ data_loaded /\ orchids # <<>> /\ orchids' = <<>>

\* the gate of C25: an operation is invoked only when the latest
\* init_database reported success
C25_SearchNeedsSuccess ==
    SearchStarts => (data_loaded /\ cached /\ load_info.t = "num")

\* the failure handling of C25: init_database sets data_loaded exactly when
\* it reports a count, and after a failure the error text is kept, nothing
\* can be searched and Retry Loading is offered
C25_FailureReported ==
    InitRuns
        => /\ data_loaded' <=> load_info'.t = "num"
           /\ ~data_loaded' => (load_info'.t = "str" /\ ~CanSearch' /\ (ENABLED Retry)')

\* C25 as stated: within a session no search operation is invoked unless
\* the latest init_database reported success; a load failure sets
\* data_loaded false with the error reported and a retry offered; and after
\* a reset no search runs before init_database has run again.
C25_NoSearchBeforeReload ==
    [][/\ C25_SearchNeedsSuccess
       /\ C25_FailureReported
       /\ ResetEmpties => ~CanSearch']_vars

\* C26 as stated: whatever the interleaving of the search calls of the
\* sessions that share the cached object and its cursor, a call that returns
\* returns the rows of its own query.
C26_RowsOfOwnQuery ==
    \A s \in Sessions :
        (Phase(s) = "fetched" /\ threads[s][3].kind = "returned")
            => threads[s][3].rows = intelligent_search(threads[s][2], MaxLimit).rows

\* the index holds the entry of the record: its rowid with the tokens of its
\* thirteen indexed columns
HasIndexEntry(row) == \E i \in DOMAIN orchids_fts : orchids_fts[i] = FtsEntry(row)

\* C27 as stated: in every reachable state where data_loaded is true, every
\* record of table orchids has its entry in the full-text index, after any
\* sequence of init_database, failed or successful loads, retry and reset.
\* Stated for states in which both tables exist and the store can be reached.
C27_LoadedMeansIndexed ==
    (data_loaded /\ health = "ok")
        => \A i \in DOMAIN orchids : HasIndexEntry(orchids[i])

\* table orchids is empty or holds the rows of one file of the source, each
\* once
OneCopy == orchids = <<>> \/ \E csv \in CsvFiles : StoredFrom(csv)

\* C28: init_database loads the dataset if and only if table orchids is
\* empty.  Run on an empty table it either reports a failure or leaves the
\* rows of the file served and returns their count; run on a non-empty table
\* it leaves the table as it is and returns success with the number of rows
\* there.  So after any sequence of init_database, reset and retry the table
\* is empty or holds one copy of each row of the source.
C28_LoadsOnlyWhenEmpty ==
    [][/\ OneCopy'
       /\ InitRuns
            => IF orchids = <<>>
               THEN IF data_loaded'
                    THEN \E csv \in CsvFiles :
                            StoredFrom(csv)' /\ load_info' = Num(Len(csv))
                    ELSE load_info'.t = "str"
               ELSE /\ orchids' = orchids
                    /\ data_loaded'
                    /\ load_info' = Num(Len(orchids))]_vars

\* init_database has run a second time, on a table that held the rows of a
\* load whose index was never built, and returned their count
C28_Witness ==
    /\ loads = 2
    /\ cached /\ data_loaded /\ health = "ok"
    /\ Len(orchids) = MaxRows
    /\ OneCopy
    /\ orchids_fts = <<>>
    /\ load_info = Num(MaxRows)

\* the filter set of the call has no fragrance filter in effect
NoFragrance == ~HasText(call.filters, "fragrance")

\* C29: for every filter set without a fragrance filter and every limit,
\* combined_search with the text absent (None or empty) returns the same
\* records in the same order as semantic_search with these filters and this
\* limit: what either call returned is what the other returns on the store.
C29_CombinedWithoutTextIsSemantic ==
    /\ (Called("combined_search") /\ ~HasQuery(call.query) /\ NoFragrance)
          => outcome = semantic_search(call.limit, call.filters)
    /\ (Called("semantic_search") /\ NoFragrance)
          => \A text \in {PyNone, Str("")} :
                 outcome = combined_search(text, call.limit, call.filters)

\* combined_search without a text, bounded below and above in temperature,
\* returned two records in the order of index idx_temp, which is not that of
\* their ids, as semantic_search does
C29_Witness ==
    /\ Called("combined_search") /\ call.query = PyNone
    /\ HasNum(call.filters, "min_temp") /\ HasNum(call.filters, "max_temp")
    /\ NoFragrance
    /\ call.limit = 2
    /\ outcome.kind = "returned"
    /\ RowIds(outcome.rows) = <<2, 1>>
    /\ outcome = semantic_search(call.limit, call.filters)

\* the call is one of the two searches by filters and bound k was passed
\* with a value other than None
BoundSupplied(k) ==
    /\ Called("semantic_search") \/ Called("combined_search")
    /\ k \in DOMAIN call.filters
    /\ call.filters[k] # PyNone

\* C30: in semantic_search and combined_search a temperature bound that is
\* not None is applied, 0 included: no record returned has a NULL in the
\* bounded field, a number returned under min_temp is at least the bound,
\* and what is returned under max_temp is a number at most the bound.
C30_BoundAppliedNullExcluded ==
    outcome.kind = "returned" =>
        \A i \in DOMAIN outcome.rows :
            LET row == outcome.rows[i]
            IN  /\ BoundSupplied("min_temp")
                  => /\ row["Temperature_Min_C"] # SqlNull
                     /\ row["Temperature_Min_C"].t = "real"
                           => row["Temperature_Min_C"].n >= call.filters["min_temp"].n
                /\ BoundSupplied("max_temp")
                  => /\ row["Temperature_Max_C"] # SqlNull
                     /\ row["Temperature_Max_C"].t = "real"
                     /\ row["Temperature_Max_C"].n <= call.filters["max_temp"].n

\* semantic_search with min_temp = 0 and room for every record returned
\* some records of a store that holds one without a minimum temperature
C30_Witness ==
    /\ Called("semantic_search")
    /\ BoundSupplied("min_temp") /\ call.filters["min_temp"] = Num(0)
    /\ call.limit = MaxLimit
    /\ \E i \in DOMAIN orchids : orchids[i]["Temperature_Min_C"] = SqlNull
    /\ outcome.kind = "returned"
    /\ outcome.rows # <<>>
    /\ \A i \in DOMAIN outcome.rows : outcome.rows[i]["Temperature_Min_C"] # SqlNull
    /\ Len(outcome.rows) < Len(orchids)

====
